---- MODULE Spec2Model ----
(***************************************************************************)
(* Model of salt/utils/stringutils.py: the pattern matcher (expr_match),   *)
(* the whitelist/blacklist evaluator (check_whitelist_blacklist) and the   *)
(* include/exclude filter (check_include_exclude).                         *)
(*                                                                         *)
(* The state is one call: the function (fn), its arguments (args), where   *)
(* it stands (pc), what it returned (ret) or raised (exc), the entries it  *)
(* logged (log) and what it did to its collaborators (io).                 *)
(*                                                                         *)
(* Text is a sequence of one-character strings.  The two library calls the *)
(* code makes, fnmatch.fnmatch and re.match / re.search, are modelled by   *)
(* their semantics on the forms the checked patterns can contain: the     *)
(* glob wildcards * ? [seq] and the regex forms . * ? | ( ) [set] \A \Z.   *)
(***************************************************************************)
EXTENDS Integers, Sequences, FiniteSets, TLC

VARIABLES pc, fn, args, ret, exc, log, io

vars == <<pc, fn, args, ret, exc, log, io>>

(***************************************************************************)
(* Bounds of the checked inputs.                                           *)
(***************************************************************************)
MaxLineLen == 3
MaxExprLen == 3
MaxValueLen == 2
MaxListLen == 2
MaxPathLen == 3
MaxPatLen == 3

\* Characters of candidates (lines, values, paths).
LineChars == {"a", "b"}
\* Characters of the patterns given to expr_match.
ExprChars == {"a", "b", "*", ".", "|", "(", ")", "[", "]"}

\* a call that prints nothing and reaches no collaborator
NoIO == [k |-> "none"]

Texts(chars, n) == UNION {[1..k -> chars] : k \in 0..n}

(***************************************************************************)
(* fnmatch.fnmatch(name, pat) on POSIX (normcase is the identity): pat     *)
(* must match the whole of name; * matches any run of characters, ? any    *)
(* one character, [seq] any one character of seq, every other character    *)
(* itself.  GlobEnds is the set of positions of name that pat[i..] can     *)
(* reach from the positions P.                                             *)
(***************************************************************************)
\* The index of the ] that closes the class opened at pat[i] = "[", or 0 when
\* there is none (the [ is then an ordinary character).  A ] right after the [
\* is a member of the class.
RECURSIVE ClassScan(_, _)
ClassScan(pat, j) ==
    IF j > Len(pat) THEN 0
    ELSE IF pat[j] = "]" THEN j ELSE ClassScan(pat, j + 1)

ClassEnd(pat, i) ==
    IF i + 1 <= Len(pat) /\ pat[i + 1] = "]" THEN ClassScan(pat, i + 2)
    ELSE ClassScan(pat, i + 1)

ClassMembers(pat, i, j) == {pat[k] : k \in (i + 1)..(j - 1)}

Step(name, P, cs) == {p + 1 : p \in {q \in P : q < Len(name) /\ name[q + 1] \in cs}}

RECURSIVE GlobEnds(_, _, _, _)
GlobEnds(pat, i, name, P) ==
    IF i > Len(pat) \/ P = {} THEN P
    ELSE LET c == pat[i]
             j == ClassEnd(pat, i)
         IN  CASE c = "*" ->
                    GlobEnds(pat, i + 1, name, {q \in 0..Len(name) : \E p \in P : p <= q})
               [] c = "?" ->
                    GlobEnds(pat, i + 1, name, {p + 1 : p \in {q \in P : q < Len(name)}})
               [] c = "[" /\ j # 0 ->
                    GlobEnds(pat, j + 1, name, Step(name, P, ClassMembers(pat, i, j)))
               [] OTHER ->
                    GlobEnds(pat, i + 1, name, Step(name, P, {c}))

fnmatch(name, pat) == Len(name) \in GlobEnds(pat, 1, name, {0})

(***************************************************************************)
(* re.compile: the parser of Python's re on the forms above.  An item is   *)
(* an atom with its repeat; a branch is a sequence of items; a pattern (or *)
(* a group) is a sequence of branches separated by |.                      *)
(***************************************************************************)
Item(k, c, sub) == [k |-> k, c |-> c, rep |-> "one", sub |-> sub]
ParseFail == [ok |-> FALSE, val |-> <<>>, next |-> 0]

RECURSIVE ParseBranch(_, _, _)
RECURSIVE ParseAlts(_, _, _)

\* sre_parse._parse: the items of one branch, from r[i] up to the end, a | or a ).
ParseBranch(r, i, items) ==
    IF i > Len(r) \/ r[i] \in {"|", ")"}
    THEN [ok |-> TRUE, val |-> items, next |-> i]
    ELSE LET c == r[i] IN
      CASE c = "\\" ->
             \* an escape: \A and \Z are the string anchors, an escaped
             \* punctuation character is that character; a pattern cannot end in \
             IF i + 1 > Len(r) THEN ParseFail
             ELSE IF r[i + 1] \in {"A", "Z"}
                  THEN ParseBranch(r, i + 2, Append(items, Item("at", r[i + 1], <<>>)))
                  ELSE ParseBranch(r, i + 2, Append(items, Item("lit", r[i + 1], <<>>)))
        [] c = "(" ->
             \* a group; (? opens an extension, none of which can be written
             \* with the characters of the checked patterns
             IF i + 1 <= Len(r) /\ r[i + 1] = "?" THEN ParseFail
             ELSE LET g == ParseAlts(r, i + 1, <<>>) IN
                  IF ~g.ok \/ g.next > Len(r) THEN ParseFail  \* missing )
                  ELSE ParseBranch(r, g.next + 1, Append(items, Item("grp", "", g.val)))
        [] c \in {"*", "?"} ->
             \* a repeat: "nothing to repeat" after nothing or an anchor,
             \* "multiple repeat" after another repeat; a following ? makes
             \* it lazy, which matches the same strings
             IF items = <<>> THEN ParseFail
             ELSE LET last == items[Len(items)]
                      lazy == i + 1 <= Len(r) /\ r[i + 1] = "?"
                      rept == [last EXCEPT !.rep = IF c = "*" THEN "star" ELSE "opt"]
                  IN  IF last.k = "at" \/ last.rep # "one" THEN ParseFail
                      ELSE ParseBranch(r, IF lazy THEN i + 2 ELSE i + 1,
                                       [items EXCEPT ![Len(items)] = rept])
        [] c = "[" ->
             \* a character set, up to the next ] (a ] right after the [ is a
             \* member); "unterminated character set" when there is none
             LET j == ClassEnd(r, i) IN
             IF j = 0 THEN ParseFail
             ELSE ParseBranch(r, j + 1,
                              Append(items, Item("set", "", SubSeq(r, i + 1, j - 1))))
        [] c = "." -> ParseBranch(r, i + 1, Append(items, Item("any", "", <<>>)))
        [] OTHER   -> ParseBranch(r, i + 1, Append(items, Item("lit", c, <<>>)))

\* sre_parse._parse_sub: branches separated by |.
ParseAlts(r, i, alts) ==
    LET b == ParseBranch(r, i, <<>>) IN
    IF ~b.ok THEN ParseFail
    ELSE IF b.next <= Len(r) /\ r[b.next] = "|"
         THEN ParseAlts(r, b.next + 1, Append(alts, b.val))
         ELSE [ok |-> TRUE, val |-> Append(alts, b.val), next |-> b.next]

\* sre_parse.parse: the whole pattern; a ) left over is "unbalanced parenthesis".
re_compile(r) ==
    LET p == ParseAlts(r, 1, <<>>) IN
    IF p.ok /\ p.next = Len(r) + 1 THEN p ELSE ParseFail

(***************************************************************************)
(* Matching: the positions a compiled pattern can reach in s from P.       *)
(***************************************************************************)
RECURSIVE EndsAlts(_, _, _)
RECURSIVE EndsSeq(_, _, _, _)
RECURSIVE EndsAtom(_, _, _)
RECURSIVE EndsStar(_, _, _, _)

EndsAtom(it, s, P) ==
    CASE it.k = "lit" -> Step(s, P, {it.c})
      [] it.k = "set" -> Step(s, P, {it.sub[k] : k \in 1..Len(it.sub)})
      [] it.k = "any" -> {p + 1 : p \in {q \in P : q < Len(s)}}
      [] it.k = "at"  -> IF it.c = "A" THEN P \cap {0} ELSE P \cap {Len(s)}
      [] OTHER        -> EndsAlts(it.sub, s, P)

EndsStar(it, s, acc, frontier) ==
    LET new == EndsAtom(it, s, frontier) \ acc IN
    IF new = {} THEN acc ELSE EndsStar(it, s, acc \cup new, new)

EndsItem(it, s, P) ==
    CASE it.rep = "one" -> EndsAtom(it, s, P)
      [] it.rep = "opt" -> P \cup EndsAtom(it, s, P)
      [] OTHER          -> EndsStar(it, s, P, P)

EndsSeq(items, j, s, P) ==
    IF j > Len(items) \/ P = {} THEN P
    ELSE EndsSeq(items, j + 1, s, EndsItem(items[j], s, P))

EndsAlts(alts, s, P) == UNION {EndsSeq(alts[j], 1, s, P) : j \in 1..Len(alts)}

\* re.match(pattern, string): "error" when the pattern does not compile,
\* otherwise whether it matches at the start of string.
re_match(pattern, string) ==
    LET p == re_compile(pattern) IN
    IF ~p.ok THEN "error"
    ELSE IF EndsAlts(p.val, string, {0}) # {} THEN "match" ELSE "nomatch"

\* re.search(pattern, string): the same, at any position of string.
re_search(pattern, string) ==
    LET p == re_compile(pattern) IN
    IF ~p.ok THEN "error"
    ELSE IF EndsAlts(p.val, string, 0..Len(string)) # {} THEN "match" ELSE "nomatch"

(***************************************************************************)
(* expr_match(line, expr)                                                  *)
(***************************************************************************)
\* r'\A{0}\Z'.format(expr)
Anchored(expr) == <<"\\", "A">> \o expr \o <<"\\", "Z">>

\* expr_match without its first test (lines 266-267)
expr_match_no_equality(line, expr) ==
    IF fnmatch(line, expr) THEN TRUE
    ELSE re_match(Anchored(expr), line) = "match"

expr_match(line, expr) ==
    IF line = expr THEN TRUE
    ELSE IF fnmatch(line, expr) THEN TRUE
    ELSE re_match(Anchored(expr), line) = "match"

(***************************************************************************)
(* Python values as the whitelist and blacklist arguments can be: None, a  *)
(* list of elements, a text, or a non-iterable scalar (an int).  An        *)
(* element of a list is a text or an int.                                  *)
(***************************************************************************)
None      == [t |-> "None", s |-> <<>>, items |-> <<>>]
Str(s)    == [t |-> "str",  s |-> s,    items |-> <<>>]
Scalar(d) == [t |-> "int",  s |-> <<d>>, items |-> <<>>]
Elem(x)   == [t |-> x.t, s |-> x.s]
List(ps)  == [t |-> "list", s |-> <<>>, items |-> [i \in 1..Len(ps) |-> [t |-> "str", s |-> ps[i]]]]

\* hasattr(x, '__iter__'): lists and (Python 3) texts
HasIter(x) == x.t \in {"list", "str"}

\* bool(x)
Truthy(x) ==
    CASE x.t = "None" -> FALSE
      [] x.t = "list" -> x.items # <<>>
      [] x.t = "str"  -> x.s # <<>>
      [] OTHER        -> x.s # <<"0">>

\* what `for expr in x` visits: a list's elements, a text's characters
Iter(x) ==
    IF x.t = "list" THEN x.items
    ELSE [i \in 1..Len(x.s) |-> [t |-> "str", s |-> <<x.s[i]>>]]

\* `if not hasattr(x, '__iter__'): x = [x]`
AsIterable(x) == IF HasIter(x) THEN Iter(x) ELSE <<Elem(x)>>

(***************************************************************************)
(* The loop `for expr in items: if expr_match(value, expr): return ...`    *)
(* from element i on: "match" at the first element that matches;           *)
(* "TypeError" at the first element that is not a text (value == expr is   *)
(* False and fnmatch.fnmatch raises); "nomatch" when the loop ends.        *)
(***************************************************************************)
RECURSIVE ScanStopOnError(_, _, _)
ScanStopOnError(value, items, i) ==
    IF i > Len(items) THEN "nomatch"
    ELSE IF items[i].t # "str" THEN "TypeError"
    ELSE IF expr_match(value, items[i].s) THEN "match"
    ELSE IF re_match(Anchored(items[i].s), value) = "error" THEN "nomatch"
    ELSE ScanStopOnError(value, items, i + 1)

ScanFirstOnly(value, items, i) ==
    IF i > Len(items) THEN "nomatch"
    ELSE IF items[i].t # "str" THEN "TypeError"
    ELSE IF expr_match(value, items[i].s) THEN "match"
    ELSE "nomatch"

RECURSIVE Scan(_, _, _)
Scan(value, items, i) ==
    IF i > Len(items) THEN "nomatch"
    ELSE IF items[i].t # "str" THEN "TypeError"
    ELSE IF expr_match(value, items[i].s) THEN "match"
    ELSE Scan(value, items, i + 1)

Result(r, l) == [ret |-> r, exc |-> "none", log |-> l]

\* lines 311-323: the whitelist stage, entered with the log so far
WhitelistAdmitsMalformed(value, whitelist, l) ==
    IF Truthy(whitelist)
    THEN LET w == Scan(value, AsIterable(whitelist), 1) IN
         CASE w = "match"     -> Result(TRUE, l)
           [] w = "TypeError" -> Result(TRUE, Append(l, "Non-iterable whitelist"))
           [] OTHER           -> Result(FALSE, l)
    ELSE Result(TRUE, l)

WhitelistEmptyDenies(value, whitelist, l) ==
    IF whitelist.t # "None"
    THEN LET w == Scan(value, AsIterable(whitelist), 1) IN
         CASE w = "match"     -> Result(TRUE, l)
           [] w = "TypeError" -> Result(FALSE, Append(l, "Non-iterable whitelist"))
           [] OTHER           -> Result(FALSE, l)
    ELSE Result(TRUE, l)

WhitelistStage(value, whitelist, l) ==
    IF Truthy(whitelist)
    THEN LET w == Scan(value, AsIterable(whitelist), 1) IN
         CASE w = "match"     -> Result(TRUE, l)
           [] w = "TypeError" -> Result(FALSE, Append(l, "Non-iterable whitelist"))
           [] OTHER           -> Result(FALSE, l)
    ELSE Result(TRUE, l)

\* check_whitelist_blacklist with the whitelist consulted first
WhitelistFirst(value, whitelist, blacklist) ==
    IF Truthy(whitelist) /\ Scan(value, AsIterable(whitelist), 1) = "match"
    THEN Result(TRUE, <<>>)
    ELSE IF blacklist.t # "None" /\ Scan(value, AsIterable(blacklist), 1) = "match"
         THEN Result(FALSE, <<>>)
         ELSE WhitelistStage(value, whitelist, <<>>)

\* check_whitelist_blacklist with a malformed blacklist denying
MalformedBlacklistDenies(value, whitelist, blacklist) ==
    IF blacklist.t = "None" THEN WhitelistStage(value, whitelist, <<>>)
    ELSE LET b == Scan(value, AsIterable(blacklist), 1) IN
         CASE b = "match"     -> Result(FALSE, <<>>)
           [] b = "TypeError" -> Result(FALSE, <<"Non-iterable blacklist">>)
           [] OTHER           -> WhitelistStage(value, whitelist, <<>>)

\* lines 301-323
check_whitelist_blacklist(value, whitelist, blacklist) ==
    IF blacklist.t = "None" THEN WhitelistStage(value, whitelist, <<>>)
    ELSE LET b == Scan(value, AsIterable(blacklist), 1) IN
         CASE b = "match"     -> Result(FALSE, <<>>)
           [] b = "TypeError" -> WhitelistStage(value, whitelist, <<"Non-iterable blacklist">>)
           [] OTHER           -> WhitelistStage(value, whitelist, <<>>)

(***************************************************************************)
(* check_include_exclude(path_str, include_pat, exclude_pat); a pattern is *)
(* None or a text.                                                         *)
(***************************************************************************)
\* re.match('E@', pat)
IsRegexPat(pat) == Len(pat) >= 2 /\ pat[1] = "E" /\ pat[2] = "@"

\* pat[2:]
Tail2(pat) == SubSeq(pat, 3, Len(pat))

\* lines 340-349 (and 352-361): the test of one pattern, with its regex
\* anchored at the start of the path (re.match in place of re.search)
PatternTestAnchored(path_str, pat) ==
    IF IsRegexPat(pat) THEN re_match(Tail2(pat), path_str)
    ELSE IF fnmatch(path_str, pat) THEN "match" ELSE "nomatch"

\* lines 340-349 (and 352-361): "match", "nomatch", or "error" when re.search
\* raises re.error
PatternTest(path_str, pat) ==
    IF IsRegexPat(pat) THEN re_search(Tail2(pat), path_str)
    ELSE IF fnmatch(path_str, pat) THEN "match" ELSE "nomatch"

\* lines 364-371 with `or` in place of `and` when both patterns are given
CombineEither(inc, exl, retchk_include, retchk_exclude) ==
    IF inc /\ ~exl THEN retchk_include
    ELSE IF exl /\ ~inc THEN retchk_exclude
    ELSE IF inc /\ exl THEN retchk_include \/ retchk_exclude
    ELSE TRUE

\* lines 364-371: inc and exl are the truth values of the two patterns
Combine(inc, exl, retchk_include, retchk_exclude) ==
    IF inc /\ ~exl THEN retchk_include
    ELSE IF exl /\ ~inc THEN retchk_exclude
    ELSE IF inc /\ exl THEN retchk_include /\ retchk_exclude
    ELSE TRUE

check_include_exclude(path_str, include_pat, exclude_pat) ==
    LET inc == Truthy(include_pat)
        exl == Truthy(exclude_pat)
        i   == IF inc THEN PatternTest(path_str, include_pat.s) ELSE "unset"
        e   == IF exl THEN PatternTest(path_str, exclude_pat.s) ELSE "unset"
    IN  IF i = "error" \/ e = "error"
        THEN [ret |-> FALSE, exc |-> "re.error", log |-> <<>>]
        ELSE [ret |-> Combine(inc, exl, i = "match", e # "match"),
              exc |-> "none", log |-> <<>>]

(***************************************************************************)
(* Specification of expr_match: a call with any line and pattern.          *)
(***************************************************************************)
InitExpr ==
    /\ pc = "call"
    /\ fn = "expr_match"
    /\ args \in [line : Texts(LineChars, MaxLineLen), expr : Texts(ExprChars, MaxExprLen)]
    /\ ret = FALSE
    /\ exc = "none"
    /\ log = <<>>
    /\ io = NoIO

CallExprMatch ==
    /\ pc = "call"
    /\ fn = "expr_match"
    /\ ret' = expr_match(args.line, args.expr)
    /\ pc' = "done"
    /\ UNCHANGED <<fn, args, exc, log, io>>

NextExpr == CallExprMatch

SpecExpr == InitExpr /\ [][NextExpr]_vars

(***************************************************************************)
(* Specification of check_whitelist_blacklist: a call with any value and   *)
(* any whitelist and blacklist among None, a list of patterns of           *)
(* PatternPool, and a non-iterable scalar (0 or 5).                        *)
(***************************************************************************)
\* a pattern that matches by equality (a), by glob (a*), by regex only (b.),
\* and one that is no valid regex ( ( )
PatternPool == {<<"a">>, <<"a", "*">>, <<"b", ".">>, <<"(">>}

Lists(n) == {List(ps) : ps \in UNION {[1..k -> PatternPool] : k \in 0..n}}
Scalars == {Scalar("0"), Scalar("5")}
PatternSets == {None} \cup Lists(MaxListLen) \cup Scalars

Init ==
    /\ pc = "call"
    /\ fn = "check_whitelist_blacklist"
    /\ args \in [value : Texts(LineChars, MaxValueLen),
                 whitelist : PatternSets, blacklist : PatternSets]
    /\ ret = FALSE
    /\ exc = "none"
    /\ log = <<>>
    /\ io = NoIO

CallCheckWhitelistBlacklist ==
    /\ pc = "call"
    /\ fn = "check_whitelist_blacklist"
    /\ LET r == check_whitelist_blacklist(args.value, args.whitelist, args.blacklist)
       IN  ret' = r.ret /\ exc' = r.exc /\ log' = r.log
    /\ pc' = "done"
    /\ UNCHANGED <<fn, args, io>>

Next == CallCheckWhitelistBlacklist

Spec == Init /\ [][Next]_vars

(***************************************************************************)
(* Properties of check_whitelist_blacklist (specification Spec).           *)
(***************************************************************************)
Done(f) == pc = "done" /\ fn = f

\* value matches at least one pattern of the list x (by expr_match)
AnyMatch(value, x) ==
    \E i \in 1..Len(x.items) : x.items[i].t = "str" /\ expr_match(value, x.items[i].s)

IsPatterns(x) == x.t \in {"None", "list"}

BlacklistDenies(value, blacklist) == blacklist.t = "list" /\ AnyMatch(value, blacklist)

Count(l, m) == Cardinality({i \in 1..Len(l) : l[i] = m})

\* C1: when value matches a blacklist pattern the result is False, whatever
\* the whitelist is, also when value matches a whitelist pattern.
C1_BlacklistPrecedence ==
    (Done("check_whitelist_blacklist") /\ args.blacklist.t = "list"
       /\ AnyMatch(args.value, args.blacklist))
    => (ret = FALSE /\ exc = "none")

C1_Witness ==
    /\ Done("check_whitelist_blacklist")
    /\ args.blacklist.t = "list" /\ AnyMatch(args.value, args.blacklist)
    /\ args.whitelist.t = "list" /\ AnyMatch(args.value, args.whitelist)
    /\ ret = FALSE

\* C2: when no blacklist pattern matches (or there is no blacklist), the result
\* is True for an absent or empty whitelist and otherwise is True exactly when
\* value matches a whitelist pattern.
C2_WhitelistStage ==
    (Done("check_whitelist_blacklist") /\ IsPatterns(args.blacklist)
       /\ IsPatterns(args.whitelist) /\ ~BlacklistDenies(args.value, args.blacklist))
    => /\ exc = "none"
       /\ ret = (args.whitelist.t = "None" \/ args.whitelist.items = <<>>
                   \/ AnyMatch(args.value, args.whitelist))

C2_Witness ==
    /\ Done("check_whitelist_blacklist")
    /\ args.blacklist.t = "list" /\ args.blacklist.items # <<>>
    /\ ~AnyMatch(args.value, args.blacklist)
    /\ args.whitelist.t = "list" /\ args.whitelist.items = <<>>
    /\ ret = TRUE

\* C3 as stated: a non-iterable whitelist is logged, treated as absent, and
\* the call returns True when the blacklist does not deny.
C3_MalformedWhitelistAdmits ==
    (Done("check_whitelist_blacklist") /\ args.whitelist.t = "int"
       /\ ~BlacklistDenies(args.value, args.blacklist))
    => (exc = "none" /\ ret = TRUE /\ Count(log, "Non-iterable whitelist") = 1)

\* C3 amended: a non-iterable whitelist never makes the call raise; a truthy
\* one is logged once and the call returns False (it is not treated as absent);
\* a falsy one (0) is treated as absent without a log entry and the call
\* returns True.
C3_MalformedWhitelistDenies ==
    (Done("check_whitelist_blacklist") /\ args.whitelist.t = "int"
       /\ ~BlacklistDenies(args.value, args.blacklist))
    => /\ exc = "none"
       /\ IF Truthy(args.whitelist)
          THEN ret = FALSE /\ Count(log, "Non-iterable whitelist") = 1
          ELSE ret = TRUE /\ Count(log, "Non-iterable whitelist") = 0

C3_Witness ==
    /\ Done("check_whitelist_blacklist")
    /\ args.whitelist = Scalar("5")
    /\ args.blacklist.t = "list" /\ args.blacklist.items # <<>>
    /\ ~AnyMatch(args.value, args.blacklist)
    /\ ret = FALSE /\ log = <<"Non-iterable whitelist">>

\* C4: a non-iterable blacklist does not raise, is logged once as an error, and
\* the result is that of the same call without a blacklist.
C4_MalformedBlacklist ==
    (Done("check_whitelist_blacklist") /\ args.blacklist.t = "int")
    => /\ exc = "none"
       /\ Count(log, "Non-iterable blacklist") = 1
       /\ ret = check_whitelist_blacklist(args.value, args.whitelist, None).ret

C4_Witness ==
    /\ Done("check_whitelist_blacklist")
    /\ args.blacklist = Scalar("0")
    /\ args.whitelist.t = "list" /\ AnyMatch(args.value, args.whitelist)
    /\ ret = TRUE /\ log = <<"Non-iterable blacklist">>

\* The regex stage of expr_match fails to compile expr, and expr neither
\* equals value nor is a glob match for it.
InvalidRegexNonMatch(value, expr) ==
    /\ value # expr
    /\ ~fnmatch(value, expr)
    /\ re_match(Anchored(expr), value) = "error"

RemoveAt(x, i) ==
    [x EXCEPT !.items = SubSeq(x.items, 1, i - 1) \o SubSeq(x.items, i + 1, Len(x.items))]

InvalidAt(value, x) ==
    {i \in 1..Len(x.items) : InvalidRegexNonMatch(value, x.items[i].s)}

\* C9 as stated: with a pattern that is no valid regex in the whitelist or the
\* blacklist, the result is that of the same call with that pattern removed.
C9_InvalidRegexRemovable ==
    (Done("check_whitelist_blacklist") /\ IsPatterns(args.whitelist)
       /\ IsPatterns(args.blacklist))
    => /\ \A i \in InvalidAt(args.value, args.whitelist) :
            ret = check_whitelist_blacklist(
                      args.value, RemoveAt(args.whitelist, i), args.blacklist).ret
       /\ \A i \in InvalidAt(args.value, args.blacklist) :
            ret = check_whitelist_blacklist(
                      args.value, args.whitelist, RemoveAt(args.blacklist, i)).ret

\* C9 amended: the result is that of the same call with the invalid pattern
\* removed, except when it is the only pattern of the whitelist: the call then
\* returns False, whereas the emptied whitelist would admit.
C9_InvalidRegexIsNonMatch ==
    (Done("check_whitelist_blacklist") /\ IsPatterns(args.whitelist)
       /\ IsPatterns(args.blacklist))
    => /\ exc = "none"
       /\ \A i \in InvalidAt(args.value, args.whitelist) :
            IF Len(args.whitelist.items) = 1
            THEN ret = FALSE
            ELSE ret = check_whitelist_blacklist(
                           args.value, RemoveAt(args.whitelist, i), args.blacklist).ret
       /\ \A i \in InvalidAt(args.value, args.blacklist) :
            ret = check_whitelist_blacklist(
                      args.value, args.whitelist, RemoveAt(args.blacklist, i)).ret

\* the invalid pattern comes first and a later pattern of the same set decides
C9_Witness ==
    /\ Done("check_whitelist_blacklist")
    /\ args.whitelist.t = "list" /\ Len(args.whitelist.items) = 2
    /\ 1 \in InvalidAt(args.value, args.whitelist)
    /\ expr_match(args.value, args.whitelist.items[2].s)
    /\ args.blacklist.t = "list" /\ Len(args.blacklist.items) = 1
    /\ 1 \in InvalidAt(args.value, args.blacklist)
    /\ ret = TRUE

\* The pattern sets that differ from x by the order of its patterns or by one
\* more copy of a pattern it holds (at any place).
Reordered(x) ==
    {[x EXCEPT !.items = [i \in 1..Len(x.items) |-> x.items[f[i]]]] :
        f \in Permutations(1..Len(x.items))}

Repeated(x) ==
    {[x EXCEPT !.items = SubSeq(x.items, 1, j) \o <<x.items[i]>>
                            \o SubSeq(x.items, j + 1, Len(x.items))] :
        i \in 1..Len(x.items), j \in 0..Len(x.items)}

Variants(x) == IF x.t = "list" THEN Reordered(x) \cup Repeated(x) ELSE {x}

\* C10: the result does not change when the whitelist or the blacklist is
\* permuted or a pattern it holds is repeated.
C10_OrderAndDuplicates ==
    (Done("check_whitelist_blacklist") /\ IsPatterns(args.whitelist)
       /\ IsPatterns(args.blacklist))
    => /\ \A w \in Variants(args.whitelist) :
            check_whitelist_blacklist(args.value, w, args.blacklist).ret = ret
       /\ \A b \in Variants(args.blacklist) :
            check_whitelist_blacklist(args.value, args.whitelist, b).ret = ret

\* only the second pattern of the whitelist, and only the second of the
\* blacklist's, could decide
C10_Witness ==
    /\ Done("check_whitelist_blacklist")
    /\ args.whitelist.t = "list" /\ Len(args.whitelist.items) = 2
    /\ ~expr_match(args.value, args.whitelist.items[1].s)
    /\ expr_match(args.value, args.whitelist.items[2].s)
    /\ args.blacklist.t = "list" /\ Len(args.blacklist.items) = 2
    /\ args.blacklist.items[1] # args.blacklist.items[2]
    /\ ~AnyMatch(args.value, args.blacklist)
    /\ ret = TRUE

(***************************************************************************)
(* Specification of check_include_exclude: a call with any path and with   *)
(* one pattern any of Pats(MaxPatLen) and the other any of FewPats.        *)
(***************************************************************************)
PathChars == {"a", "[", "]"}
PatChars  == {"a", "*", "?", "[", "]"}

\* None, every glob and every E@ regex of at most n characters
Pats(n) == {None} \cup {Str(p) : p \in Texts(PatChars, n)}
                  \cup {Str(<<"E", "@">> \o p) : p \in Texts(PatChars, n)}

\* None, the empty text, a glob, a regex, a regex that does not compile
FewPats == {None, Str(<<>>), Str(<<"a", "*">>), Str(<<"E", "@", "a">>),
            Str(<<"E", "@", "*">>)}

InitIE ==
    /\ pc = "call"
    /\ fn = "check_include_exclude"
    /\ args \in [path_str : Texts(PathChars, MaxPathLen),
                 include_pat : Pats(MaxPatLen), exclude_pat : FewPats]
              \cup [path_str : Texts(PathChars, MaxPathLen),
                    include_pat : FewPats, exclude_pat : Pats(MaxPatLen)]
    /\ ret = FALSE
    /\ exc = "none"
    /\ log = <<>>
    /\ io = NoIO

CallCheckIncludeExclude ==
    /\ pc = "call"
    /\ fn = "check_include_exclude"
    /\ LET r == check_include_exclude(args.path_str, args.include_pat, args.exclude_pat)
       IN  ret' = r.ret /\ exc' = r.exc /\ log' = r.log
    /\ pc' = "done"
    /\ UNCHANGED <<fn, args, io>>

NextIE == CallCheckIncludeExclude

SpecIE == InitIE /\ [][NextIE]_vars

(***************************************************************************)
(* Properties of check_include_exclude (specification SpecIE).             *)
(***************************************************************************)
\* a pattern is supplied when the code's test `if include_pat:` passes: it is
\* neither None nor the empty text
Supplied(pat) == pat.t = "str" /\ pat.s # <<>>

\* the match result of one supplied pattern: an E@ pattern matches when its
\* remainder, as a regex, matches at the start of some suffix of the path; any
\* other pattern when it matches the whole path as a glob
MatchesAnywhere(regex, path_str) ==
    \E k \in 0..Len(path_str) :
        re_match(regex, SubSeq(path_str, k + 1, Len(path_str))) = "match"

PatMatches(path_str, pat) ==
    IF IsRegexPat(pat) THEN MatchesAnywhere(Tail2(pat), path_str)
    ELSE fnmatch(path_str, pat)

Policy(inc, exl, includeMatches, excludeMatches) ==
    CASE ~inc /\ ~exl -> TRUE
      [] inc /\ ~exl  -> includeMatches
      [] ~inc /\ exl  -> ~excludeMatches
      [] OTHER        -> includeMatches /\ ~excludeMatches

\* C6 as stated: the result is True with no pattern supplied, includeMatches
\* with only the include pattern, NOT excludeMatches with only the exclude
\* pattern, and includeMatches AND NOT excludeMatches with both, for every
\* pair of patterns (a pattern is supplied when it is not None).
C6_PolicyOfGivenPatterns ==
    (Done("check_include_exclude") /\ exc = "none")
    => ret = Policy(args.include_pat.t # "None", args.exclude_pat.t # "None",
                    PatMatches(args.path_str, args.include_pat.s),
                    PatMatches(args.path_str, args.exclude_pat.s))

\* C6 amended: the same policy, an empty pattern counting as not supplied (it
\* is not matched as a glob, which would match the empty path only).
C6_CombinationPolicy ==
    (Done("check_include_exclude") /\ exc = "none")
    => ret = Policy(Supplied(args.include_pat), Supplied(args.exclude_pat),
                    PatMatches(args.path_str, args.include_pat.s),
                    PatMatches(args.path_str, args.exclude_pat.s))

\* both patterns supplied, the include pattern matches and the exclude pattern
\* matches too
C6_Witness ==
    /\ Done("check_include_exclude") /\ exc = "none"
    /\ Supplied(args.include_pat) /\ Supplied(args.exclude_pat)
    /\ PatMatches(args.path_str, args.include_pat.s)
    /\ PatMatches(args.path_str, args.exclude_pat.s)
    /\ ret = FALSE

\* C7: an E@ pattern is searched for, as a regex, anywhere in the path; every
\* other pattern is matched as a glob against the whole path and in no other
\* way (a pattern equal to the path, or one that matches it as a regex, does
\* not match unless the glob does).
C7_ModeSelection ==
    (Done("check_include_exclude") /\ exc = "none")
    => /\ (Supplied(args.include_pat) /\ ~Supplied(args.exclude_pat))
            => ret = IF IsRegexPat(args.include_pat.s)
                     THEN MatchesAnywhere(Tail2(args.include_pat.s), args.path_str)
                     ELSE fnmatch(args.path_str, args.include_pat.s)
       /\ (Supplied(args.exclude_pat) /\ ~Supplied(args.include_pat))
            => ret = IF IsRegexPat(args.exclude_pat.s)
                     THEN ~MatchesAnywhere(Tail2(args.exclude_pat.s), args.path_str)
                     ELSE ~fnmatch(args.path_str, args.exclude_pat.s)

\* an E@ pattern that matches neither the whole path nor at its start, but
\* inside it
C7_Witness ==
    /\ Done("check_include_exclude") /\ exc = "none"
    /\ args.exclude_pat = None
    /\ Supplied(args.include_pat) /\ IsRegexPat(args.include_pat.s)
    /\ re_match(Tail2(args.include_pat.s), args.path_str) = "nomatch"
    /\ ret = TRUE

\* C8: the call returns a boolean and raises nothing, for every text path and
\* every pair of text patterns.
C8_NoException == pc = "done" => exc = "none"

(***************************************************************************)
(* Properties of expr_match (specification SpecExpr).                      *)
(***************************************************************************)
\* expr, read as a regular expression, matches line from its first to its
\* last character
MatchesEntirely(expr, line) ==
    LET p == re_compile(expr) IN
    p.ok /\ Len(line) \in EndsAlts(p.val, line, {0})

\* C5: when expr neither equals line nor is a glob match for it, expr_match
\* returns True only if expr as a regex matches the entire line.
C5_AnchoredFallback ==
    (Done("expr_match") /\ args.line # args.expr /\ ~fnmatch(args.line, args.expr)
       /\ ret = TRUE)
    => MatchesEntirely(args.expr, args.line)

(***************************************************************************)
(* Specification of expr_match(value, value): the line is the pattern, any *)
(* text over the pattern characters.                                       *)
(***************************************************************************)
InitRefl ==
    /\ pc = "call"
    /\ fn = "expr_match"
    /\ \E v \in Texts(ExprChars, MaxExprLen) : args = [line |-> v, expr |-> v]
    /\ ret = FALSE
    /\ exc = "none"
    /\ log = <<>>
    /\ io = NoIO

SpecRefl == InitRefl /\ [][NextExpr]_vars

\* C11: expr_match(value, value) is True for every text value, also one that
\* contains glob or regex metacharacters or is no valid regular expression.
C11_Reflexive == Done("expr_match") => ret = TRUE

\* a value that is neither a glob match nor a regex match for itself: only the
\* equality test admits it
C11_Witness ==
    /\ Done("expr_match")
    /\ args.line = args.expr
    /\ ~fnmatch(args.line, args.expr)
    /\ re_match(Anchored(args.expr), args.line) # "match"
    /\ ret = TRUE

(***************************************************************************)
(* human_to_bytes (lines 186-210).  The result is n * 2^e with e up to 50, *)
(* more than the integers of the model checker hold, so that a product is  *)
(* kept as the pair of n and e; zero is the pair of 0 and 0.               *)
(***************************************************************************)
MaxSizeLen == 3

DecimalDigits == <<"0", "1", "2", "3", "4", "5", "6", "7", "8", "9">>

IsDecimal(c) == \E i \in 1..Len(DecimalDigits) : DecimalDigits[i] = c

DigitValue(c) == (CHOOSE i \in 1..Len(DecimalDigits) : DecimalDigits[i] = c) - 1

\* characters for which str.isdigit() is true and that int() rejects
\* (superscript two, U+00B2)
OtherDigits == {"²"}

\* str.isdigit(): at least one character, and every character a digit
isdigit(s) == s # <<>> /\ \A i \in 1..Len(s) : IsDecimal(s[i]) \/ s[i] \in OtherDigits

\* int(s) accepts the decimal digits only
IntParses(s) == s # <<>> /\ \A i \in 1..Len(s) : IsDecimal(s[i])

RECURSIVE int(_)
int(s) ==
    IF s = <<>> THEN 0
    ELSE 10 * int(SubSeq(s, 1, Len(s) - 1)) + DigitValue(s[Len(s)])

\* 1125899906842624 = 2^50, 1099511627776 = 2^40, 1073741824 = 2^30,
\* 1048576 = 2^20
PExp == 50
TExp == 40
GExp == 30
MExp == 20

\* n * 2^e
Times(n, e) == IF n = 0 THEN [n |-> 0, e |-> 0] ELSE [n |-> n, e |-> e]

Zero == Times(0, 0)

Returns(v) == [ret |-> v, exc |-> "none"]

Raises(e) == [ret |-> Zero, exc |-> e]

human_to_bytes(size) ==
    IF size = <<>> THEN Raises("IndexError")
    ELSE LET sbytes == SubSeq(size, 1, Len(size) - 1)
             unit == size[Len(size)]
         IN  IF isdigit(sbytes)
             THEN IF ~IntParses(sbytes) THEN Raises("ValueError")
                  ELSE LET n == int(sbytes)
                       IN  CASE unit = "P" -> Returns(Times(n, PExp))
                             [] unit = "T" -> Returns(Times(n, TExp))
                             [] unit = "G" -> Returns(Times(n, GExp))
                             [] unit = "M" -> Returns(Times(n, MExp))
                             [] OTHER -> Returns(Zero)
             ELSE Returns(Zero)

SizeChars == {"0", "1", "9", "M", "G", "T", "P", "K", "²"}

InitBytes ==
    /\ pc = "call"
    /\ fn = "human_to_bytes"
    /\ \E s \in Texts(SizeChars, MaxSizeLen) : args = [size |-> s]
    /\ ret = Zero
    /\ exc = "none"
    /\ log = <<>>
    /\ io = NoIO

CallHumanToBytes ==
    /\ pc = "call"
    /\ fn = "human_to_bytes"
    /\ LET r == human_to_bytes(args.size)
       IN  ret' = r.ret /\ exc' = r.exc
    /\ pc' = "done"
    /\ UNCHANGED <<fn, args, log, io>>

NextBytes == CallHumanToBytes

SpecBytes == InitBytes /\ [][NextBytes]_vars

\* what the sentence gives for a size: n * 2^20, 2^30, 2^40, 2^50 for decimal
\* digits n followed by M, G, T, P, and zero for every other string
StatedBytes(size) ==
    IF Len(size) >= 2 /\ IntParses(SubSeq(size, 1, Len(size) - 1))
                      /\ size[Len(size)] \in {"M", "G", "T", "P"}
    THEN LET n == int(SubSeq(size, 1, Len(size) - 1))
             u == size[Len(size)]
         IN  Times(n, CASE u = "M" -> 20 [] u = "G" -> 30 [] u = "T" -> 40 [] u = "P" -> 50)
    ELSE Zero

\* C12: human_to_bytes returns n * 2^20, 2^30, 2^40, 2^50 for digits n followed
\* by M, G, T, P, returns 0 for every other string (the empty string
\* included), and raises for no input.
C12_BytesOrZero ==
    Done("human_to_bytes") => exc = "none" /\ ret = StatedBytes(args.size)

(***************************************************************************)
(* is_quoted (lines 112-122) and dequote (lines 125-131).                  *)
(***************************************************************************)
MaxQuotedLen == 3

Quotes == {"'", "\""}

\* value[0] and value[-1] are read before startswith: the empty string
\* raises IndexError
is_quoted(value) ==
    IF value = <<>> THEN [ret |-> <<>>, exc |-> "IndexError"]
    ELSE IF value[1] = value[Len(value)] /\ value[1] \in Quotes
         THEN [ret |-> <<value[1]>>, exc |-> "none"]
         ELSE [ret |-> <<>>, exc |-> "none"]

dequote(value) ==
    LET q == is_quoted(value)
    IN  IF q.exc # "none" THEN q
        ELSE IF q.ret # <<>>
             THEN [ret |-> SubSeq(value, 2, Len(value) - 1), exc |-> "none"]
             ELSE [ret |-> value, exc |-> "none"]

QuotedChars == {"'", "\"", "a", "b"}

InitQuote ==
    /\ pc = "call"
    /\ fn \in {"is_quoted", "dequote"}
    /\ \E v \in Texts(QuotedChars, MaxQuotedLen) : args = [value |-> v]
    /\ ret = <<>>
    /\ exc = "none"
    /\ log = <<>>
    /\ io = NoIO

CallIsQuoted ==
    /\ pc = "call"
    /\ fn = "is_quoted"
    /\ LET r == is_quoted(args.value)
       IN  ret' = r.ret /\ exc' = r.exc
    /\ pc' = "done"
    /\ UNCHANGED <<fn, args, log, io>>

CallDequote ==
    /\ pc = "call"
    /\ fn = "dequote"
    /\ LET r == dequote(args.value)
       IN  ret' = r.ret /\ exc' = r.exc
    /\ pc' = "done"
    /\ UNCHANGED <<fn, args, log, io>>

NextQuote == CallIsQuoted \/ CallDequote

SpecQuote == InitQuote /\ [][NextQuote]_vars

\* the value is wrapped in a pair of identical single or double quotes
Wrapped(value) ==
    Len(value) >= 2 /\ value[1] = value[Len(value)] /\ value[1] \in Quotes

\* C13: for every string value, the empty string and one-character strings
\* included, is_quoted returns the quote character when the value is wrapped
\* in a pair of identical quotes and the empty string otherwise, and dequote
\* returns the value without that outer pair, or unchanged; neither raises.
C13_QuotePair ==
    /\ Done("is_quoted") =>
          /\ exc = "none"
          /\ ret = IF Wrapped(args.value) THEN <<args.value[1]>> ELSE <<>>
    /\ Done("dequote") =>
          /\ exc = "none"
          /\ ret = IF Wrapped(args.value)
                   THEN SubSeq(args.value, 2, Len(args.value) - 1)
                   ELSE args.value

(***************************************************************************)
(* print_cli (lines 376-400): a loop of print attempts.  io holds the      *)
(* local retries, the messages stdout has received (out), the messages the *)
(* stream has taken into its buffer and not yet passed on (pending), the   *)
(* number of passes through the try block (attempts), of calls of print    *)
(* (calls), of calls of print that returned (returned), of IOErrors that   *)
(* asked for another attempt (failures), of sleeps, and the outcome of the *)
(* last call of print.  The outcome of a call of print, whether the stream *)
(* took the text, and how much of its buffer it passed on, are the         *)
(* environment's choice: a print that raised IOError can leave its text in *)
(* the buffer, from where a later print passes it on with its own; a print *)
(* that returned can leave its text in the buffer of a stream that is not  *)
(* line buffered, and on an unbuffered stream that would block its text is *)
(* lost.  The wait of line 395 is a position of its own (pc = "sleep"):  *)
(* the failure is counted there and retries is not yet decremented.  step  *)
(* is in hundredths of a second; time.sleep raises ValueError for a        *)
(* negative one.                                                           *)
(***************************************************************************)
MaxRetries == 3

Outcome(kind, errno, unavailable) ==
    [kind |-> kind, errno |-> errno, unavailable |-> unavailable]

NoOutcome == Outcome("none", "none", FALSE)

Printed == Outcome("ok", "none", FALSE)

UnicodeEncodeError == Outcome("UnicodeEncodeError", "none", FALSE)

\* an IOError: its errno, and whether its text holds "temporarily unavailable"
IOErrors == {Outcome("IOError", e, u) : e \in {"EPIPE", "EAGAIN", "EIO"}, u \in BOOLEAN}

IsAscii(msg) == \A i \in 1..Len(msg) : msg[i] \in {"o", "k"}

\* print(msg): only a message with a character outside the stream's encoding
\* can raise UnicodeEncodeError
PrintOutcomes(msg) ==
    {Printed} \cup IOErrors \cup (IF IsAscii(msg) THEN {} ELSE {UnicodeEncodeError})

\* print(msg.encode('utf-8'))
EncodedOutcomes == {Printed} \cup IOErrors

\* the error asks for another attempt (lines 390-394, without the errno test
\* of line 389)
Again(e) == e.unavailable \/ e.errno = "EAGAIN"

\* the handler with the broken pipe treated as every other error
HandleEveryErrno(e, s) ==
    IF Again(e) /\ s.retries # 0
    THEN [pc |-> "sleep", exc |-> "none", io |-> s]
    ELSE [pc |-> "done", exc |-> "IOError", io |-> s]

\* except IOError as exc (lines 387-394, 398-399), up to the call of
\* time.sleep, and the break of line 400
Handle(e, s) ==
    IF e.errno # "EPIPE"
    THEN IF Again(e) /\ s.retries # 0
         THEN [pc |-> "sleep", exc |-> "none", io |-> s]
         ELSE [pc |-> "done", exc |-> "IOError", io |-> s]
    ELSE [pc |-> "done", exc |-> "none", io |-> s]

\* what the stream does in a call of print with outcome o, n messages in its
\* buffer: whether it takes the text, and how many messages of its buffer
\* (the taken one last) it passes on.  A print that returned has taken the
\* text, or, on an unbuffered stream whose write would block, has dropped it;
\* a UnicodeEncodeError comes before anything is taken; an IOError comes
\* before the text is taken, or from a flush that did not pass on everything.
StreamEffects(o, n) ==
    CASE o.kind = "ok" -> {[taken |-> FALSE, passed |-> 0]}
                              \cup {[taken |-> TRUE, passed |-> k] : k \in 0..(n + 1)}
      [] o.kind = "UnicodeEncodeError" -> {[taken |-> FALSE, passed |-> 0]}
      [] OTHER -> {[taken |-> FALSE, passed |-> 0]}
                      \cup {[taken |-> TRUE, passed |-> k] : k \in 0..n}

\* what a call of print with outcome o and stream effect e leaves: the
\* messages on stdout and in the buffer, the counters, and where print_cli
\* goes on
AfterPrint(o, e, written, s0) ==
    LET buffer == IF e.taken THEN Append(s0.pending, written) ELSE s0.pending
        s == [s0 EXCEPT !.calls = @ + 1, !.last = o,
                        !.returned = IF o.kind = "ok" THEN @ + 1 ELSE @,
                        !.failures = IF o.kind = "IOError" /\ o.errno # "EPIPE" /\ Again(o)
                                     THEN @ + 1 ELSE @,
                        !.out = @ \o SubSeq(buffer, 1, e.passed),
                        !.pending = SubSeq(buffer, e.passed + 1, Len(buffer))]
    IN  CASE o.kind = "ok" ->
               [pc |-> "done", exc |-> "none", io |-> s]
          [] o.kind = "UnicodeEncodeError" ->
               [pc |-> "encode", exc |-> "none", io |-> s]
          [] OTHER -> Handle(o, s)

Messages == {<<"o", "k">>, <<"é">>}

Steps == {-1, 0, 1}

InitPrint ==
    /\ pc = "while"
    /\ fn = "print_cli"
    /\ \E m \in Messages, n \in 0..MaxRetries, st \in Steps :
          args = [msg |-> m, retries |-> n, step |-> st]
    /\ ret = None
    /\ exc = "none"
    /\ log = <<>>
    /\ io = [retries |-> args.retries, out |-> <<>>, pending |-> <<>>,
             attempts |-> 0, calls |-> 0, returned |-> 0,
             failures |-> 0, sleeps |-> 0, last |-> NoOutcome]

\* while retries: (line 381)
PrintCliWhile ==
    /\ pc = "while"
    /\ fn = "print_cli"
    /\ IF io.retries # 0
       THEN pc' = "print" /\ io' = [io EXCEPT !.attempts = @ + 1]
       ELSE pc' = "done" /\ io' = io
    /\ UNCHANGED <<fn, args, ret, exc, log>>

\* print(msg) (line 384)
PrintCliPrint ==
    /\ pc = "print"
    /\ fn = "print_cli"
    /\ \E o \in PrintOutcomes(args.msg) : \E e \in StreamEffects(o, Len(io.pending)) :
          LET r == AfterPrint(o, e, [text |-> args.msg, encoded |-> FALSE], io)
          IN  pc' = r.pc /\ exc' = r.exc /\ io' = r.io
    /\ UNCHANGED <<fn, args, ret, log>>

\* print(msg.encode('utf-8')) (line 386)
PrintCliEncoded ==
    /\ pc = "encode"
    /\ fn = "print_cli"
    /\ \E o \in EncodedOutcomes : \E e \in StreamEffects(o, Len(io.pending)) :
          LET r == AfterPrint(o, e, [text |-> args.msg, encoded |-> TRUE], io)
          IN  pc' = r.pc /\ exc' = r.exc /\ io' = r.io
    /\ UNCHANGED <<fn, args, ret, log>>

\* time.sleep(step); retries -= 1; continue (lines 395-397)
Sleep(step, s) ==
    IF step < 0
    THEN [pc |-> "done", exc |-> "ValueError", io |-> [s EXCEPT !.sleeps = @ + 1]]
    ELSE [pc |-> "while", exc |-> "none",
          io |-> [s EXCEPT !.sleeps = @ + 1, !.retries = @ - 1]]

PrintCliSleep ==
    /\ pc = "sleep"
    /\ fn = "print_cli"
    /\ LET r == Sleep(args.step, io)
       IN  pc' = r.pc /\ exc' = r.exc /\ io' = r.io
    /\ UNCHANGED <<fn, args, ret, log>>

NextPrint == PrintCliWhile \/ PrintCliPrint \/ PrintCliEncoded \/ PrintCliSleep

SpecPrint == InitPrint /\ [][NextPrint]_vars

\* print and sleep return, and the interpreter runs the next statement
SpecPrintFair == SpecPrint /\ WF_vars(NextPrint)

BrokenPipe(o) == o.kind = "IOError" /\ o.errno = "EPIPE"

Unavailable(o) == o.kind = "IOError" /\ o.errno # "EPIPE" /\ (o.errno = "EAGAIN" \/ o.unavailable)

\* C14: when print fails with a broken pipe (EPIPE), print_cli returns without
\* raising and without another attempt; an IOError that is neither EPIPE nor
\* temporarily unavailable (EAGAIN) is raised at its first occurrence.
C14_BrokenPipeSuppressed ==
    /\ BrokenPipe(io.last) => pc = "done" /\ exc = "none"
    /\ (io.last.kind = "IOError" /\ ~BrokenPipe(io.last) /\ ~Unavailable(io.last))
          => pc = "done" /\ exc = "IOError"

\* a broken pipe on a later attempt, after an attempt that was retried
C14_Witness ==
    /\ Done("print_cli")
    /\ BrokenPipe(io.last)
    /\ io.attempts = 2
    /\ io.sleeps = 1
    /\ io.retries > 0
    /\ exc = "none"

\* at most n attempts for retries = n (an attempt is one pass through the try
\* block: print(msg) and, after a UnicodeEncodeError, the print of the encoded
\* message), the counter is n less the number of temporarily-unavailable
\* failures (the last one still to be subtracted during the wait), and n = 0
\* ends the call without a call of print
RetryBounds ==
    /\ io.attempts <= args.retries
    /\ io.calls <= 2 * io.attempts
    /\ io.retries = args.retries - io.failures + (IF pc = "sleep" THEN 1 ELSE 0)
    /\ io.retries >= 0
    /\ (pc = "done" /\ args.retries = 0) =>
          io.attempts = 0 /\ io.calls = 0 /\ exc = "none"

TextPool == {<<>>, <<"a">>, <<"*">>, <<"a", "b">>, <<"a", "*">>}

TextOrList == {None} \cup {Str(p) : p \in TextPool} \cup {List(<<p>>) : p \in TextPool}

InitText ==
    /\ pc = "call"
    /\ fn = "check_whitelist_blacklist"
    /\ args \in [value : Texts(LineChars, MaxValueLen),
                 whitelist : TextOrList, blacklist : TextOrList]
    /\ ret = FALSE
    /\ exc = "none"
    /\ log = <<>>
    /\ io = NoIO

SpecText == InitText /\ [][Next]_vars

\* the one-element list of a text, every other argument as it is
Coerced(x) == IF x.t = "str" THEN List(<<x.s>>) ELSE x

\* C15: a text pattern p passed as the blacklist or as the whitelist gives the
\* result of the one-element list [p]; the characters of p are never used as
\* separate patterns.
C15_TextIsOnePattern ==
    Done("check_whitelist_blacklist") =>
        ret = check_whitelist_blacklist(args.value, Coerced(args.whitelist),
                                        Coerced(args.blacklist)).ret

(***************************************************************************)
(* arista_pyeapi: _prepare_connection (lines 159-179), get_connection      *)
(* (lines 186-212) and call (lines 215-260).  A dict is a function from    *)
(* its keys to values; a value is None or a text.  io holds the 'pyeapi'   *)
(* block as configured, the dict                                           *)
(* that config.get returned (updated in place by line 167), the functions  *)
(* of __proxy__, what clean_kwargs returned, and what reached              *)
(* pyeapi.client.connect, pyeapi.client.Node, the proxy and the invoked    *)
(* method.                                                                 *)
(***************************************************************************)
PYEAPI_INIT_KWARGS ==
    {"transport", "host", "username", "password", "enablepwd", "port",
     "timeout", "return_node"}

EmptyDict == [k \in {} |-> None]

Dicts(keys, vals) == UNION {[S -> vals] : S \in SUBSET keys}

\* d.update(e)
Update(d, e) ==
    [k \in DOMAIN d \cup DOMAIN e |-> IF k \in DOMAIN e THEN e[k] ELSE d[k]]

\* d.get(k)
Get(d, k) == IF k \in DOMAIN d THEN d[k] ELSE None

Only(d, keys) == [k \in keys |-> d[k]]

Https == Str(<<"h", "t", "t", "p", "s">>)

\* fun_kwargs that takes every key with a value, connection-init keys too
FunKwargsEveryKey(pyeapi_kwargs) ==
    Only(pyeapi_kwargs, {k \in DOMAIN pyeapi_kwargs : pyeapi_kwargs[k] # None})

\* lines 168-172
FunKwargs(pyeapi_kwargs) ==
    Only(pyeapi_kwargs, {k \in DOMAIN pyeapi_kwargs :
                            k \notin PYEAPI_INIT_KWARGS /\ pyeapi_kwargs[k] # None})

\* lines 168-176
InitArgs(pyeapi_kwargs) ==
    LET init_args == Only(pyeapi_kwargs, {k \in DOMAIN pyeapi_kwargs :
                             k \in PYEAPI_INIT_KWARGS /\ pyeapi_kwargs[k] # None})
    IN  IF "transport" \notin DOMAIN init_args
        THEN Update(init_args, [k \in {"transport"} |-> Https])
        ELSE init_args

\* the call with environment s: the block is updated in place, connect gets
\* init_args, Node gets enablepwd, and fun_kwargs is returned with the node
_prepare_connection(kwargs, s) ==
    LET pyeapi_kwargs == Update(s.block, kwargs)
        init_args == InitArgs(pyeapi_kwargs)
    IN  [ret |-> FunKwargs(pyeapi_kwargs),
         io  |-> [s EXCEPT !.block = pyeapi_kwargs,
                           !.connected = TRUE,
                           !.connect = init_args,
                           !.enablepwd = Get(init_args, "enablepwd")]]

Values == {None, Str(<<"x">>), Str(<<"y">>)}

ConfigKeys == {"transport", "enablepwd", "encoding"}

CallKeys == ConfigKeys \cup {"__pub_fun"}

\* clean_kwargs(**kwargs) (lines 208 and 255) is imported from
\* salt.utils.args (line 101), whose code is not among the sources: what it
\* returns is the environment's choice among the dicts, and the choice is
\* kept in io.cleaned
CleanedKwargs == Dicts(CallKeys, Values)

\* the keyword arguments of call and get_connection as the caller gives them
CallerKwargs == Dicts({"transport", "__pub_fun"}, {None, Str(<<"x">>)})

\* __proxy__: of the pyeapi proxy minion, or of another minion
Proxies == {{}, {"pyeapi.call", "pyeapi.conn"}}

InitConn ==
    /\ pc = "call"
    /\ fn \in {"_prepare_connection", "call", "get_connection"}
    /\ \E kw \in (IF fn = "_prepare_connection" THEN Dicts(ConfigKeys, Values)
                                                ELSE CallerKwargs) :
          args = [kwargs |-> kw]
    /\ ret = EmptyDict
    /\ exc = "none"
    /\ log = <<>>
    /\ \E c \in Dicts(ConfigKeys, Values), p \in Proxies :
          io = [configured |-> c, block |-> c,
                proxy |-> IF fn = "_prepare_connection" THEN {} ELSE p,
                cleaned |-> EmptyDict,
                connected |-> FALSE, connect |-> EmptyDict, enablepwd |-> None,
                invoked |-> FALSE, method_kwargs |-> EmptyDict,
                proxied |-> FALSE, proxy_kwargs |-> EmptyDict]

CallPrepareConnection ==
    /\ pc = "call"
    /\ fn = "_prepare_connection"
    /\ LET r == _prepare_connection(args.kwargs, io)
       IN  ret' = r.ret /\ io' = r.io
    /\ pc' = "done"
    /\ UNCHANGED <<fn, args, exc, log>>

\* get_connection(**kwargs), lines 208-212; the node returned is not modelled
CallGetConnection ==
    /\ pc = "call"
    /\ fn = "get_connection"
    /\ \E kwargs \in CleanedKwargs :
          LET s == [io EXCEPT !.cleaned = kwargs]
          IN  IF "pyeapi.conn" \in io.proxy
              THEN io' = [s EXCEPT !.proxied = TRUE]
              ELSE io' = _prepare_connection(kwargs, s).io
    /\ pc' = "done"
    /\ UNCHANGED <<fn, args, ret, exc, log>>

\* call(method, *args, **kwargs), lines 255-260; the method's result is not
\* modelled
CallCall ==
    /\ pc = "call"
    /\ fn = "call"
    /\ \E kwargs \in CleanedKwargs :
          LET s == [io EXCEPT !.cleaned = kwargs]
          IN  IF "pyeapi.call" \in io.proxy
              THEN io' = [s EXCEPT !.proxied = TRUE, !.proxy_kwargs = kwargs]
              ELSE LET r == _prepare_connection(kwargs, s)
                   IN  io' = [r.io EXCEPT !.invoked = TRUE, !.method_kwargs = r.ret]
    /\ pc' = "done"
    /\ UNCHANGED <<fn, args, ret, exc, log>>

NextConn == CallPrepareConnection \/ CallGetConnection \/ CallCall

SpecConn == InitConn /\ [][NextConn]_vars

\* the keyword arguments _prepare_connection was called with: its own, or
\* what clean_kwargs returned to call and get_connection
PassedKwargs == IF fn = "_prepare_connection" THEN args.kwargs ELSE io.cleaned

\* the configured block merged with those keyword arguments, the keyword
\* arguments first
Merged ==
    [k \in DOMAIN io.configured \cup DOMAIN PassedKwargs |->
        IF k \in DOMAIN PassedKwargs THEN PassedKwargs[k] ELSE io.configured[k]]

\* every key of m with a value other than None is in exactly one of init (the
\* keys of PYEAPI_INIT_KWARGS) and fun (the others), with its value; a key
\* with the value None is in neither, but for 'transport', which init always
\* holds, 'https' when m has no transport other than None
Partitioned(m, init, fun) ==
    /\ \A k \in DOMAIN m :
          /\ (m[k] # None /\ k \in PYEAPI_INIT_KWARGS) =>
                k \in DOMAIN init /\ init[k] = m[k] /\ k \notin DOMAIN fun
          /\ (m[k] # None /\ k \notin PYEAPI_INIT_KWARGS) =>
                k \in DOMAIN fun /\ fun[k] = m[k] /\ k \notin DOMAIN init
          /\ (m[k] = None /\ k # "transport") =>
                k \notin DOMAIN init /\ k \notin DOMAIN fun
    /\ (DOMAIN init \cup DOMAIN fun) \subseteq (DOMAIN m \cup {"transport"})
    /\ "transport" \in DOMAIN init
    /\ "transport" \notin DOMAIN fun
    /\ ("transport" \notin DOMAIN m \/ m["transport"] = None) =>
          init["transport"] = Https

\* C17: of the merge of the configured 'pyeapi' block with the keyword
\* arguments of _prepare_connection (the call's value wins), every key with a
\* value other than None is in exactly one of the connection-init arguments
\* (the keys of PYEAPI_INIT_KWARGS) and the function kwargs (the others), with
\* its merged value; a key with the value None is in neither, but for
\* 'transport', which the init arguments always hold, 'https' when no
\* transport other than None was merged; call() outside a proxy hands the
\* function kwargs, and so no connection-init key, to the pyeapi method.
C17_ArgumentPartition ==
    /\ Done("_prepare_connection") =>
          io.connected /\ Partitioned(Merged, io.connect, ret)
    /\ (Done("call") /\ "pyeapi.call" \notin io.proxy) =>
          /\ io.connected /\ io.invoked
          /\ Partitioned(Merged, io.connect, io.method_kwargs)
          /\ DOMAIN io.method_kwargs \cap PYEAPI_INIT_KWARGS = {}

\* call outside a proxy: a configured transport is overridden by the call, a
\* configured enablepwd is overridden by None, and the method gets encoding
C17_Witness ==
    /\ Done("call")
    /\ io.proxy = {}
    /\ "transport" \in DOMAIN io.configured
    /\ io.configured["transport"] = Str(<<"x">>)
    /\ "transport" \in DOMAIN io.cleaned
    /\ io.cleaned["transport"] = Str(<<"y">>)
    /\ io.connect["transport"] = Str(<<"y">>)
    /\ "enablepwd" \in DOMAIN io.configured
    /\ io.configured["enablepwd"] # None
    /\ "enablepwd" \in DOMAIN io.cleaned
    /\ io.cleaned["enablepwd"] = None
    /\ DOMAIN io.connect = {"transport"}
    /\ DOMAIN io.method_kwargs = {"encoding"}

====
